---- MODULE Spec2Model ----
(***************************************************************************)
(* The appointment lifecycle of tch-backend (src/server.js).               *)
(*                                                                         *)
(* src/server.js holds four versions of the same server:                   *)
(*   lines    1- 444  Supabase store, two-step doctor forms, payment-done  *)
(*   lines  446- 666  Supabase store, one-click GET /doctor-action links   *)
(*   lines  668-1095  in-memory Map store, verify-payment, consultation    *)
(*   lines 1096-1424  as the first version, with other e-mail markup       *)
(* One of them is deployed at a time.  The variable `variant` says which:  *)
(* "forms" (the first and the fourth version, whose handlers are the same  *)
(* statement for statement), "links" (the second) or "memory" (the third). *)
(*                                                                         *)
(* Under Spec a request handler is one action: the requests are served     *)
(* one after the other.  `res` is the response to the last request         *)
(* answered and `sent` the e-mails that request handed to the mailer.      *)
(* Under SpecConc the handlers of the Supabase versions are cut at their   *)
(* awaits, and `requests` holds the requests that got past their read.     *)
(* SpecFault lets the store calls and the sends fail, SpecPages adds the   *)
(* GET pages of the decision links, SpecLive cuts the handlers at their    *)
(* awaited sends, and SpecMigrate runs the migration script on the table.  *)
(***************************************************************************)
EXTENDS Integers, Sequences, FiniteSets, TLC

VARIABLES variant, appointments, res, sent, requests

vars == <<variant, appointments, res, sent, requests>>

\* ------------------------------------------------------------- bounds ----
\* The number of appointment ids uuidv4 can hand out.
MaxAppointments == 2

\* The number of requests SpecConc lets past their read of the store.
MaxRequests == 2

\* ---------------------------------------------------------- constants ----
JITSI_PREFIX == "sidhahealth"

BASE_URL == "http://localhost:5000"

doctorEmail == "tch231017@gmail.com"

fee == 500

consultationFee == 500

\* --------------------------------------------------- values of a run -----
Variants == {"forms", "links", "memory"}

Supabase == {"forms", "links"}

\* uuid values, opaque
Ids == 1..MaxAppointments

\* A property that the request body does not carry reads as undefined.
Undefined == "<undefined>"

\* consultType as the booking form sends it
ConsultTypes == {"Online", "offline"}

\* email as the booking form sends it: given, empty, or missing
Emails == {"a@x.com", "", Undefined}

\* final_time / finalTime as the doctor types it
FinalTimes == {"10:30 AM", "3 PM"}

\* reason / declineReason as the doctor types it
Reasons == {"fully booked"}

\* Math.random().toString(36).slice(2, 10)
Suffixes == {"k3j9x2ab", "q7w1e5rt"}

\* :action of GET /doctor-action/:id/:action
DoctorActions == {"confirm", "decline", "cancel"}

\* an amount a client adds to the body of a booking request
Amounts == {1}

\* a body with and without the amount property
WithAmount(bodies) ==
    bodies \cup {[k \in (DOMAIN b) \cup {"amount"} |->
                    IF k = "amount" THEN a ELSE b[k]] : b \in bodies, a \in Amounts}

\* req.body of POST /book-appointment: consultType is one of types, empty or missing
BookBodiesOf(types) ==
    WithAmount([name : {"Asha"}, email : Emails, number : {"98400"},
                date : {"2024-06-01"}, time : {"10:00"},
                consultType : types \cup {"", Undefined}])

BookBodiesMemOf(types) ==
    WithAmount([name : {"Asha"}, email : Emails, phone : {"98400"},
                date : {"2024-06-01"}, time : {"10:00"},
                consultType : types \cup {"", Undefined}])

BookBodies == BookBodiesOf(ConsultTypes)

BookBodiesMem == BookBodiesMemOf(ConsultTypes)

\* the wider inputs of SpecWide: a consult type that is neither online nor
\* offline, and a decline request that carries no reason
ConsultTypesWide == ConsultTypes \cup {"yoga"}

ReasonsWide == Reasons \cup {Undefined}

\* ------------------------------------------------------- pure helpers ----
\* the comparison as it would be without the call of toLowerCase
toLowerCase_Identity(s) == s

\* String.prototype.toLowerCase on the strings of ConsultTypes
toLowerCase(s) ==
    CASE s = "Online" -> "online"
      [] s = "ONLINE" -> "online"
      [] s = "Offline" -> "offline"
      [] OTHER -> s

\* truthiness as it would be if only a missing value were refused
Truthy_EmptyAccepted(x) == x # Undefined

\* JavaScript truthiness of a string-or-undefined value: !x is ~Truthy(x)
Truthy(x) == x # "" /\ x # Undefined

\* Object spread / SQL UPDATE ... SET: the keys of u overwrite those of r
Merge(r, u) ==
    [k \in (DOMAIN r) \cup (DOMAIN u) |-> IF k \in DOMAIN u THEN u[k] ELSE r[k]]

\* the response of a handler; link is <<>> when the page shows none
Response(op, id, status, kind, link) ==
    [op |-> op, id |-> id, status |-> status, kind |-> kind, link |-> link]

\* sendEmail(to, subject, html) / transporter.sendMail({to, subject, html})
Mail(to, subject) == [to |-> to, subject |-> subject]

\* a confirmation e-mail as it would be if every one went to the doctor
ConfirmMail_ToDoctor(to, subject, video, pay) ==
    [to |-> doctorEmail, subject |-> subject, video |-> video, pay |-> pay]

\* a confirmation e-mail: video and pay are the links its markup carries,
\* <<>> where it carries none
ConfirmMail(to, subject, video, pay) ==
    [to |-> to, subject |-> subject, video |-> video, pay |-> pay]

\* a decline e-mail as it would be if it went to the doctor
DeclineMail_ToDoctor(to, subject, reason) ==
    [to |-> doctorEmail, subject |-> subject, reason |-> reason]

\* a decline e-mail and the reason its markup prints
DeclineMail(to, subject, reason) ==
    [to |-> to, subject |-> subject, reason |-> reason]

\* `${JITSI_PREFIX}-${suffix}`
JitsiRoom(suffix) == <<JITSI_PREFIX, "-", suffix>>

\* `https://meet.jit.si/${room}`
JitsiLink(room) == <<"https://meet.jit.si/">> \o room

\* `${BASE_URL}/payment/${id}`
PaymentLink(id) == <<BASE_URL, "/payment/", id>>

\* ---------------------------------------------------------- the store ----
\* uuidv4 as it would be if it could return an id already handed out
uuidv4_Reused == Ids

\* uuidv4(): an id no earlier call returned (records are never deleted)
uuidv4 == Ids \ DOMAIN appointments

\* supabase.from("appointments").insert([obj]) / appointments.set(id, obj)
saveAppointment(obj) ==
    [i \in (DOMAIN appointments) \cup {obj.id} |->
        IF i = obj.id THEN obj ELSE appointments[i]]

\* the update as it would be without .eq("id", id): every row is written
updateAppointment_EveryRow(id, updates) ==
    [i \in DOMAIN appointments |-> Merge(appointments[i], updates)]

\* supabase ... .update(updates).eq("id", id)
updateAppointment(id, updates) ==
    [appointments EXCEPT ![id] = Merge(@, updates)]

\* getAppointment(id) / appointments.get(id) found a record
Found(id) == id \in DOMAIN appointments

Init ==
    /\ variant \in Variants
    /\ appointments = <<>>
    /\ res = Response("none", 0, 0, "none", <<>>)
    /\ sent = <<>>
    /\ requests = {}

\* ------------------------------------------- Supabase: POST /book-appointment
\* Book as it would be if it stored the requested time as the final time
PostBookAppointment_PrefillsFinalTime(body) ==
    /\ variant \in Supabase
    /\ IF ~Truthy(body.email) \/ ~Truthy(body.consultType)
       THEN /\ sent' = <<>>
            /\ res' = Response("book", 0, 400, "validation", <<>>)
            /\ UNCHANGED appointments
       ELSE \E id \in uuidv4 :
            /\ appointments' = saveAppointment(
                   [id |-> id, name |-> body.name, email |-> body.email,
                    phone |-> body.number, date |-> body.date, time |-> body.time,
                    consult_type |-> body.consultType, final_time |-> body.time,
                    confirmed |-> FALSE, declined |-> FALSE])
            /\ sent' = <<Mail(doctorEmail, "New Appointment Request")>>
            /\ res' = Response("book", id, 200, "booked", <<>>)
    /\ UNCHANGED <<variant, requests>>

PostBookAppointment(body) ==
    /\ variant \in Supabase
    /\ IF ~Truthy(body.email) \/ ~Truthy(body.consultType)
       THEN /\ sent' = <<>>
            /\ res' = Response("book", 0, 400, "validation", <<>>)
            /\ UNCHANGED appointments
       ELSE \E id \in uuidv4 :
            /\ appointments' = saveAppointment(
                   [id |-> id, name |-> body.name, email |-> body.email,
                    phone |-> body.number, date |-> body.date, time |-> body.time,
                    consult_type |-> body.consultType,
                    confirmed |-> FALSE, declined |-> FALSE])
            /\ sent' = <<Mail(doctorEmail, "New Appointment Request")>>
            /\ res' = Response("book", id, 200, "booked", <<>>)
    /\ UNCHANGED <<variant, requests>>

\* the video link a page renders from the record it read, <<>> when null
Href(r, k) == IF k \in DOMAIN r THEN r[k] ELSE <<>>

\* JSON.stringify drops a property whose value is undefined: the column is
\* not part of the UPDATE
Column(k, v) == IF v = Undefined THEN <<>> ELSE [x \in {k} |-> v]

\* --------------------------------------- forms: POST /doctor-decline/:id
\* the decline handler as it would be if declining withdrew the confirmation
PostDoctorDecline_ClearsConfirmed(id, reason) ==
    /\ variant = "forms"
    /\ IF ~Found(id)
       THEN /\ sent' = <<>>
            /\ res' = Response("decline", id, 404, "not_found", <<>>)
            /\ UNCHANGED appointments
       ELSE /\ appointments' = updateAppointment(id,
                   Merge([declined |-> TRUE, confirmed |-> FALSE],
                         Column("decline_reason", reason)))
            /\ sent' = <<Mail(appointments[id].email, "Appointment Declined")>>
            /\ res' = Response("decline", id, 200, "declined", <<>>)
    /\ UNCHANGED <<variant, requests>>

PostDoctorDecline(id, reason) ==
    /\ variant = "forms"
    /\ IF ~Found(id)
       THEN /\ sent' = <<>>
            /\ res' = Response("decline", id, 404, "not_found", <<>>)
            /\ UNCHANGED appointments
       ELSE /\ appointments' = updateAppointment(id,
                   Merge([declined |-> TRUE], Column("decline_reason", reason)))
            /\ sent' = <<DeclineMail(appointments[id].email, "Appointment Declined",
                                     reason)>>
            /\ res' = Response("decline", id, 200, "declined", <<>>)
    /\ UNCHANGED <<variant, requests>>

\* -------------------------------------- forms: POST /doctor-set-time/:id
\* the confirm updates as they would be with payment_done: isOnline
DoctorSetTimeUpdates_PaidOnline(appointment, id, final_time, suffix) ==
    LET isOnline == toLowerCase(appointment.consult_type) = "online"
        updates  == Merge([confirmed |-> TRUE, amount |-> fee,
                           payment_done |-> isOnline],
                          Column("final_time", final_time))
    IN  IF isOnline
        THEN Merge(updates,
                   [jitsi_room |-> JitsiRoom(suffix),
                    video_link |-> JitsiLink(JitsiRoom(suffix)),
                    payment_link |-> PaymentLink(id)])
        ELSE updates

\* the confirm updates as they would be without the `if (isOnline)`
DoctorSetTimeUpdates_AlwaysLinks(appointment, id, final_time, suffix) ==
    LET isOnline == toLowerCase(appointment.consult_type) = "online"
        updates  == Merge([confirmed |-> TRUE, amount |-> fee,
                           payment_done |-> ~isOnline],
                          Column("final_time", final_time))
    IN  Merge(updates,
              [jitsi_room |-> JitsiRoom(suffix),
               video_link |-> JitsiLink(JitsiRoom(suffix)),
               payment_link |-> PaymentLink(id)])

DoctorSetTimeUpdates(appointment, id, final_time, suffix) ==
    LET isOnline == toLowerCase(appointment.consult_type) = "online"
        updates  == Merge([confirmed |-> TRUE, amount |-> fee,
                           payment_done |-> ~isOnline],
                          Column("final_time", final_time))
    IN  IF isOnline
        THEN Merge(updates,
                   [jitsi_room |-> JitsiRoom(suffix),
                    video_link |-> JitsiLink(JitsiRoom(suffix)),
                    payment_link |-> PaymentLink(id)])
        ELSE updates

PostDoctorSetTime(id, final_time, suffix) ==
    /\ variant = "forms"
    /\ IF ~Found(id)
       THEN /\ sent' = <<>>
            /\ res' = Response("confirm", id, 404, "not_found", <<>>)
            /\ UNCHANGED appointments
       ELSE LET updates == DoctorSetTimeUpdates(appointments[id], id, final_time, suffix)
            IN  /\ appointments' = updateAppointment(id, updates)
                /\ sent' = <<ConfirmMail(appointments[id].email,
                                         "Your Appointment is Confirmed",
                                         <<>>, Href(updates, "payment_link")),
                             ConfirmMail(doctorEmail,
                                         "Appointment Confirmed - Final Details",
                                         Href(updates, "video_link"), <<>>)>>
                /\ res' = Response("confirm", id, 200, "confirmed", <<>>)
    /\ UNCHANGED <<variant, requests>>

\* ----------------------------------------- forms: POST /payment-done/:id
\* the payment handler as it would be if it toggled payment_done
PostPaymentDone_Toggle(id) ==
    /\ variant = "forms"
    /\ IF ~Found(id)
       THEN /\ sent' = <<>>
            /\ res' = Response("pay", id, 404, "not_found", <<>>)
            /\ UNCHANGED appointments
       ELSE /\ appointments' = updateAppointment(id,
                   [payment_done |-> ~("payment_done" \in DOMAIN appointments[id]
                                        /\ appointments[id].payment_done)])
            /\ sent' = <<>>
            /\ res' = IF toLowerCase(appointments[id].consult_type) = "online"
                      THEN Response("pay", id, 200, "payment_confirmed_video",
                                    Href(appointments[id], "video_link"))
                      ELSE Response("pay", id, 200, "payment_confirmed", <<>>)
    /\ UNCHANGED <<variant, requests>>

PostPaymentDone(id) ==
    /\ variant = "forms"
    /\ IF ~Found(id)
       THEN /\ sent' = <<>>
            /\ res' = Response("pay", id, 404, "not_found", <<>>)
            /\ UNCHANGED appointments
       ELSE /\ appointments' = updateAppointment(id, [payment_done |-> TRUE])
            /\ sent' = <<>>
            /\ res' = IF toLowerCase(appointments[id].consult_type) = "online"
                      THEN Response("pay", id, 200, "payment_confirmed_video",
                                    Href(appointments[id], "video_link"))
                      ELSE Response("pay", id, 200, "payment_confirmed", <<>>)
    /\ UNCHANGED <<variant, requests>>

\* --------------------------------- links: GET /doctor-action/:id/:action
DoctorActionUpdates(appointment, suffix) ==
    LET isOnline == toLowerCase(appointment.consult_type) = "online"
        updates  == [confirmed |-> TRUE, final_time |-> appointment.time,
                     amount |-> fee, payment_done |-> ~isOnline]
    IN  IF isOnline
        THEN Merge(updates,
                   [jitsi_room |-> JitsiRoom(suffix),
                    video_link |-> JitsiLink(JitsiRoom(suffix)),
                    payment_link |-> PaymentLink(appointment.id)])
        ELSE updates

GetDoctorAction(id, action, suffix) ==
    /\ variant = "links"
    /\ IF ~Found(id)
       THEN /\ sent' = <<>>
            /\ res' = Response(action, id, 404, "not_found", <<>>)
            /\ UNCHANGED appointments
       ELSE IF appointments[id].confirmed
       THEN /\ sent' = <<>>
            /\ res' = Response(action, id, 200, "already_confirmed", <<>>)
            /\ UNCHANGED appointments
       ELSE IF appointments[id].declined
       THEN /\ sent' = <<>>
            /\ res' = Response(action, id, 200, "already_declined", <<>>)
            /\ UNCHANGED appointments
       ELSE IF action = "confirm"
       THEN LET updates == DoctorActionUpdates(appointments[id], suffix)
            IN  /\ appointments' = updateAppointment(id, updates)
                /\ sent' = <<ConfirmMail(appointments[id].email, "Appointment Confirmed",
                                         Href(updates, "video_link"),
                                         Href(updates, "payment_link")),
                             ConfirmMail(doctorEmail,
                                         "Appointment Confirmed - Consultation Link",
                                         Href(updates, "video_link"), <<>>)>>
                /\ res' = Response(action, id, 200, "confirmed", <<>>)
       ELSE IF action = "decline"
       THEN /\ appointments' = updateAppointment(id,
                   [declined |-> TRUE, decline_reason |-> "Declined by doctor"])
            /\ sent' = <<DeclineMail(appointments[id].email, "Appointment Declined",
                                     "Declined by doctor")>>
            /\ res' = Response(action, id, 200, "declined", <<>>)
       ELSE /\ sent' = <<>>
            /\ res' = Response(action, id, 400, "invalid_action", <<>>)
            /\ UNCHANGED appointments
    /\ UNCHANGED <<variant, requests>>

\* ------------------------------------- memory: POST /book-appointment
\* Book as it would be if it stored the amount the client sent
PostBookAppointmentMem_StoresAmount(body) ==
    /\ variant = "memory"
    /\ IF ~Truthy(body.email) \/ ~Truthy(body.consultType)
       THEN /\ sent' = <<>>
            /\ res' = Response("book", 0, 400, "validation", <<>>)
            /\ UNCHANGED appointments
       ELSE \E id \in uuidv4 :
            /\ appointments' = saveAppointment(
                   Merge([id |-> id, name |-> body.name, email |-> body.email,
                          phone |-> body.phone, date |-> body.date, time |-> body.time,
                          consultType |-> body.consultType,
                          confirmed |-> FALSE, declined |-> FALSE],
                         IF "amount" \in DOMAIN body
                         THEN [amount |-> body.amount] ELSE <<>>))
            /\ sent' = <<Mail(doctorEmail, "New Appointment Request")>>
            /\ res' = Response("book", id, 200, "booked", <<>>)
    /\ UNCHANGED <<variant, requests>>

PostBookAppointmentMem(body) ==
    /\ variant = "memory"
    /\ IF ~Truthy(body.email) \/ ~Truthy(body.consultType)
       THEN /\ sent' = <<>>
            /\ res' = Response("book", 0, 400, "validation", <<>>)
            /\ UNCHANGED appointments
       ELSE \E id \in uuidv4 :
            /\ appointments' = saveAppointment(
                   [id |-> id, name |-> body.name, email |-> body.email,
                    phone |-> body.phone, date |-> body.date, time |-> body.time,
                    consultType |-> body.consultType,
                    confirmed |-> FALSE, declined |-> FALSE])
            /\ sent' = <<Mail(doctorEmail, "New Appointment Request")>>
            /\ res' = Response("book", id, 200, "booked", <<>>)
    /\ UNCHANGED <<variant, requests>>

\* -------------------------------- memory: POST /confirm-appointment/:id
ConfirmAppointmentUpdates(appointment, finalTime, suffix) ==
    LET isOnline == toLowerCase(appointment.consultType) = "online"
        updates  == [confirmed |-> TRUE, finalTime |-> finalTime,
                     paymentDone |-> FALSE]
    IN  IF isOnline
        THEN Merge(updates,
                   [jitsiRoom |-> JitsiRoom(suffix),
                    videoLink |-> JitsiLink(JitsiRoom(suffix)),
                    paymentLink |-> PaymentLink(appointment.id),
                    amount |-> consultationFee])
        ELSE Merge(updates, [amount |-> consultationFee])

PostConfirmAppointment(id, finalTime, suffix) ==
    /\ variant = "memory"
    /\ IF ~Found(id)
       THEN /\ sent' = <<>>
            /\ res' = Response("confirm", id, 404, "not_found", <<>>)
            /\ UNCHANGED appointments
       ELSE IF appointments[id].declined
       THEN /\ sent' = <<>>
            /\ res' = Response("confirm", id, 200, "already_declined", <<>>)
            /\ UNCHANGED appointments
       ELSE /\ appointments' = updateAppointment(id,
                   ConfirmAppointmentUpdates(appointments[id], finalTime, suffix))
            /\ sent' = <<ConfirmMail(appointments[id].email, "Appointment Confirmed",
                                     <<>>, Href(appointments'[id], "paymentLink")),
                         ConfirmMail(doctorEmail,
                             "Appointment Confirmed - Patient Details & Consultation Link",
                             Href(appointments'[id], "videoLink"), <<>>)>>
            /\ res' = Response("confirm", id, 200, "confirmed", <<>>)
    /\ UNCHANGED <<variant, requests>>

\* -------------------------------- memory: POST /decline-appointment/:id
\* the decline handler as it would be without the not-found return
PostDeclineAppointment_NoNotFound(id, declineReason) ==
    /\ variant = "memory"
    /\ IF Found(id) /\ appointments[id].confirmed
       THEN /\ sent' = <<>>
            /\ res' = Response("decline", id, 200, "already_confirmed", <<>>)
            /\ UNCHANGED appointments
       ELSE /\ appointments' = saveAppointment(
                   Merge(IF Found(id) THEN appointments[id] ELSE [id |-> id],
                         [declined |-> TRUE,
                          declineReason |-> IF Truthy(declineReason) THEN declineReason
                                            ELSE "No reason provided."]))
            /\ sent' = <<Mail(Undefined, "Appointment Declined")>>
            /\ res' = Response("decline", id, 200, "declined", <<>>)
    /\ UNCHANGED <<variant, requests>>

PostDeclineAppointment(id, declineReason) ==
    /\ variant = "memory"
    /\ IF ~Found(id)
       THEN /\ sent' = <<>>
            /\ res' = Response("decline", id, 404, "not_found", <<>>)
            /\ UNCHANGED appointments
       ELSE IF appointments[id].confirmed
       THEN /\ sent' = <<>>
            /\ res' = Response("decline", id, 200, "already_confirmed", <<>>)
            /\ UNCHANGED appointments
       ELSE /\ appointments' = updateAppointment(id,
                   [declined |-> TRUE,
                    declineReason |-> IF Truthy(declineReason) THEN declineReason
                                      ELSE "No reason provided."])
            /\ sent' = <<DeclineMail(appointments[id].email, "Appointment Declined",
                                     appointments'[id].declineReason)>>
            /\ res' = Response("decline", id, 200, "declined", <<>>)
    /\ UNCHANGED <<variant, requests>>

\* ------------------------------------ memory: POST /verify-payment/:id
\* the payment handler as it would be if it mailed a receipt to the patient
PostVerifyPayment_Receipt(id) ==
    /\ variant = "memory"
    /\ IF ~Found(id)
       THEN /\ sent' = <<>>
            /\ res' = Response("pay", id, 404, "not_found", <<>>)
            /\ UNCHANGED appointments
       ELSE /\ appointments' = updateAppointment(id, [paymentDone |-> TRUE])
            /\ sent' = <<Mail(appointments[id].email, "Payment Received")>>
            /\ res' = IF "videoLink" \in DOMAIN appointments[id]
                      THEN Response("pay", id, 200, "payment_verified_video",
                                    appointments[id].videoLink)
                      ELSE Response("pay", id, 200, "payment_verified_in_person", <<>>)
    /\ UNCHANGED <<variant, requests>>

PostVerifyPayment(id) ==
    /\ variant = "memory"
    /\ IF ~Found(id)
       THEN /\ sent' = <<>>
            /\ res' = Response("pay", id, 404, "not_found", <<>>)
            /\ UNCHANGED appointments
       ELSE /\ appointments' = updateAppointment(id, [paymentDone |-> TRUE])
            /\ sent' = <<>>
            /\ res' = IF "videoLink" \in DOMAIN appointments[id]
                      THEN Response("pay", id, 200, "payment_verified_video",
                                    appointments[id].videoLink)
                      ELSE Response("pay", id, 200, "payment_verified_in_person", <<>>)
    /\ UNCHANGED <<variant, requests>>

\* -------------------------------------- memory: GET /consultation/:id
\* the access page as it would be without the paymentDone check
ConsultationAccess_NoPaymentCheck(appointment) ==
    IF "videoLink" \in DOMAIN appointment
    THEN [kind |-> "redirect", link |-> appointment.videoLink]
    ELSE [kind |-> "offline_confirmed", link |-> <<>>]

\* the access page as it would be if it redirected to the payment link
ConsultationAccess_PaymentLink(appointment) ==
    IF ~("paymentDone" \in DOMAIN appointment /\ appointment.paymentDone)
    THEN [kind |-> "payment_first", link |-> <<>>]
    ELSE IF "videoLink" \in DOMAIN appointment
    THEN [kind |-> "redirect", link |-> appointment.paymentLink]
    ELSE [kind |-> "offline_confirmed", link |-> <<>>]

\* the outcome of the page for a record: what is sent and the link, if any
ConsultationAccess(appointment) ==
    IF ~("paymentDone" \in DOMAIN appointment /\ appointment.paymentDone)
    THEN [kind |-> "payment_first", link |-> <<>>]
    ELSE IF "videoLink" \in DOMAIN appointment
    THEN [kind |-> "redirect", link |-> appointment.videoLink]
    ELSE [kind |-> "offline_confirmed", link |-> <<>>]

\* the access page as it would be if it recorded the visit on the record
GetConsultation_RecordsVisit(id) ==
    /\ variant = "memory"
    /\ IF ~Found(id)
       THEN /\ res' = Response("consultation", id, 404, "not_found", <<>>)
            /\ UNCHANGED appointments
       ELSE LET a == ConsultationAccess(appointments[id])
            IN  /\ res' = Response("consultation", id,
                                   IF a.kind = "redirect" THEN 302 ELSE 200,
                                   a.kind, a.link)
                /\ appointments' = updateAppointment(id, [visited |-> TRUE])
    /\ sent' = <<>>
    /\ UNCHANGED <<variant, requests>>

GetConsultation(id) ==
    /\ variant = "memory"
    /\ IF ~Found(id)
       THEN res' = Response("consultation", id, 404, "not_found", <<>>)
       ELSE LET a == ConsultationAccess(appointments[id])
            IN  res' = Response("consultation", id,
                                IF a.kind = "redirect" THEN 302 ELSE 200,
                                a.kind, a.link)
    /\ sent' = <<>>
    /\ UNCHANGED <<variant, appointments, requests>>

\* ------------------------------------------------------- specification ---
Next ==
    \/ \E body \in BookBodies : PostBookAppointment(body)
    \/ \E id \in Ids, reason \in Reasons : PostDoctorDecline(id, reason)
    \/ \E id \in Ids, final_time \in FinalTimes, suffix \in Suffixes :
          PostDoctorSetTime(id, final_time, suffix)
    \/ \E id \in Ids : PostPaymentDone(id)
    \/ \E id \in Ids, action \in DoctorActions, suffix \in Suffixes :
          GetDoctorAction(id, action, suffix)
    \/ \E body \in BookBodiesMem : PostBookAppointmentMem(body)
    \/ \E id \in Ids, finalTime \in FinalTimes, suffix \in Suffixes :
          PostConfirmAppointment(id, finalTime, suffix)
    \/ \E id \in Ids, declineReason \in Reasons : PostDeclineAppointment(id, declineReason)
    \/ \E id \in Ids : PostVerifyPayment(id)
    \/ \E id \in Ids : GetConsultation(id)

Spec == Init /\ [][Next]_vars

\* the same handlers with the wider inputs
NextWide ==
    \/ \E body \in BookBodiesOf(ConsultTypesWide) : PostBookAppointment(body)
    \/ \E id \in Ids, reason \in ReasonsWide : PostDoctorDecline(id, reason)
    \/ \E id \in Ids, final_time \in FinalTimes, suffix \in Suffixes :
          PostDoctorSetTime(id, final_time, suffix)
    \/ \E id \in Ids : PostPaymentDone(id)
    \/ \E id \in Ids, action \in DoctorActions, suffix \in Suffixes :
          GetDoctorAction(id, action, suffix)
    \/ \E body \in BookBodiesMemOf(ConsultTypesWide) : PostBookAppointmentMem(body)
    \/ \E id \in Ids, finalTime \in FinalTimes, suffix \in Suffixes :
          PostConfirmAppointment(id, finalTime, suffix)
    \/ \E id \in Ids, declineReason \in ReasonsWide :
          PostDeclineAppointment(id, declineReason)
    \/ \E id \in Ids : PostVerifyPayment(id)
    \/ \E id \in Ids : GetConsultation(id)

SpecWide == Init /\ [][NextWide]_vars

\* ------------------------------------------- the decision pages ----
\* The booking notification carries a confirm and a decline link, which the
\* doctor opens with GET.  SpecPages adds the pages they render to Spec.

\* forms: GET /doctor-action/:id/confirm and GET /doctor-action/:id/decline
GetDoctorActionPage(id, action) ==
    /\ variant = "forms"
    /\ sent' = <<>>
    /\ res' = IF ~Found(id)
              THEN Response(<<"GET", action>>, id, 404, "not_found", <<>>)
              ELSE IF appointments[id].confirmed
              THEN Response(<<"GET", action>>, id, 200, "already_confirmed", <<>>)
              ELSE IF appointments[id].declined
              THEN Response(<<"GET", action>>, id, 200, "already_declined", <<>>)
              ELSE Response(<<"GET", action>>, id, 200, "form",
                            IF action = "confirm"
                            THEN <<"/doctor-set-time/", id>>
                            ELSE <<"/doctor-decline/", id>>)
    /\ UNCHANGED <<variant, appointments, requests>>

\* memory: GET /confirm-appointment/:id, one page with both forms
GetConfirmAppointment(id) ==
    /\ variant = "memory"
    /\ sent' = <<>>
    /\ res' = IF ~Found(id)
              THEN Response(<<"GET", "confirm">>, id, 404, "not_found", <<>>)
              ELSE IF appointments[id].confirmed
              THEN Response(<<"GET", "confirm">>, id, 200, "already_confirmed", <<>>)
              ELSE IF appointments[id].declined
              THEN Response(<<"GET", "confirm">>, id, 200, "already_declined", <<>>)
              ELSE Response(<<"GET", "confirm">>, id, 200, "form",
                            <<"/confirm-appointment/", id>>)
    /\ UNCHANGED <<variant, appointments, requests>>

\* the decision links of the booking notification
PageActions == {"confirm", "decline"}

NextPages ==
    \/ Next
    \/ \E id \in Ids, action \in PageActions : GetDoctorActionPage(id, action)
    \/ \E id \in Ids : GetConfirmAppointment(id)

SpecPages == Init /\ [][NextPages]_vars

\* ------------------------------------------------- failing services ----
\* The mailer and the store can fail.  SpecFault serves the requests one
\* after the other, as Spec does, and lets every store call and every send
\* of a request fail or succeed.

\* sgMail.send / transporter.sendMail rejected: the mail was attempted only
Failed(mail) == Merge(mail, [error |-> TRUE])

\* the k-th send of a request, which fails when k is in failing
Attempt(mail, k, failing) == IF k \in failing THEN Failed(mail) ELSE mail

\* which sends of a request fail
Failing == SUBSET {1, 2}

\* the final time of the confirm requests under SpecFault
FinalTimesFault == {"10:30 AM"}

\* the draw of the room name under SpecFault
SuffixesFault == {"k3j9x2ab"}

\* the bodies of the booking requests under SpecFault
BookBodiesFault ==
    [name : {"Asha"}, email : {"a@x.com", ""}, number : {"98400"},
     date : {"2024-06-01"}, time : {"10:00"}, consultType : ConsultTypes]

BookBodiesMemFault ==
    [name : {"Asha"}, email : {"a@x.com", ""}, phone : {"98400"},
     date : {"2024-06-01"}, time : {"10:00"}, consultType : ConsultTypes]

\* A rejected promise that no try/catch of an async handler takes: Express 5
\* answers 500, Express 4 leaves the request unanswered, and a Node that exits
\* on an unhandled rejection takes the Map of appointments with it (the rows
\* of the Supabase table outlive the process).
UnhandledRejection(op, id, updated) ==
    \/ /\ res' = Response(op, id, 500, "unhandled_error", <<>>)
       /\ appointments' = updated
    \/ /\ res' = Response(op, id, 0, "no_response", <<>>)
       /\ appointments' = updated
    \/ /\ res' = Response(op, id, 0, "process_exit", <<>>)
       /\ appointments' = IF variant = "memory" THEN <<>> ELSE updated

\* getAppointment(id) returned a row: the row exists and the select gave no
\* error (a failed select returns null, as a missing row does)
Got(id, selectError) == ~selectError /\ Found(id)

\* Book as it would be if the operator were notified before the insert
PostBookAppointmentFaulty_MailFirst(body, insertError, failing) ==
    /\ variant \in Supabase
    /\ IF ~Truthy(body.email) \/ ~Truthy(body.consultType)
       THEN /\ sent' = <<>>
            /\ res' = Response("book", 0, 400, "validation", <<>>)
            /\ UNCHANGED appointments
       ELSE \E id \in uuidv4 :
            /\ sent' = <<Attempt(Mail(doctorEmail, "New Appointment Request"),
                                1, failing)>>
            /\ IF insertError
               THEN /\ res' = Response("book", id, 500, "server_error", <<>>)
                    /\ UNCHANGED appointments
               ELSE /\ appointments' = saveAppointment(
                           [id |-> id, name |-> body.name, email |-> body.email,
                            phone |-> body.number, date |-> body.date,
                            time |-> body.time, consult_type |-> body.consultType,
                            confirmed |-> FALSE, declined |-> FALSE])
                    /\ res' = Response("book", id, 200, "booked", <<>>)
    /\ UNCHANGED <<variant, requests>>

\* Supabase: POST /book-appointment; insertError: supabase returned an error
PostBookAppointmentFaulty(body, insertError, failing) ==
    /\ variant \in Supabase
    /\ IF ~Truthy(body.email) \/ ~Truthy(body.consultType)
       THEN /\ sent' = <<>>
            /\ res' = Response("book", 0, 400, "validation", <<>>)
            /\ UNCHANGED appointments
       ELSE \E id \in uuidv4 :
            IF insertError
            THEN /\ sent' = <<>>
                 /\ res' = Response("book", id, 500, "server_error", <<>>)
                 /\ UNCHANGED appointments
            ELSE /\ appointments' = saveAppointment(
                        [id |-> id, name |-> body.name, email |-> body.email,
                         phone |-> body.number, date |-> body.date, time |-> body.time,
                         consult_type |-> body.consultType,
                         confirmed |-> FALSE, declined |-> FALSE])
                 /\ sent' = <<Attempt(Mail(doctorEmail, "New Appointment Request"),
                                     1, failing)>>
                 /\ res' = Response("book", id, 200, "booked", <<>>)
    /\ UNCHANGED <<variant, requests>>

\* forms: POST /doctor-decline/:id; selectError, updateError: supabase
\* returned an error to the select, to the update
PostDoctorDeclineFaulty(id, reason, selectError, updateError, failing) ==
    /\ variant = "forms"
    /\ IF ~Got(id, selectError)
       THEN /\ sent' = <<>>
            /\ res' = Response("decline", id, 404, "not_found", <<>>)
            /\ UNCHANGED appointments
       ELSE IF updateError
       THEN /\ sent' = <<>>
            /\ res' = Response("decline", id, 500, "server_error", <<>>)
            /\ UNCHANGED appointments
       ELSE /\ appointments' = updateAppointment(id,
                   Merge([declined |-> TRUE], Column("decline_reason", reason)))
            /\ sent' = <<Attempt(DeclineMail(appointments[id].email,
                                             "Appointment Declined", reason),
                                 1, failing)>>
            /\ res' = Response("decline", id, 200, "declined", <<>>)
    /\ UNCHANGED <<variant, requests>>

\* Confirm as it would be if a failed update had written the flag already
PostDoctorSetTimeFaulty_PartialUpdate(id, final_time, suffix, selectError, updateError, failing) ==
    /\ variant = "forms"
    /\ IF ~Got(id, selectError)
       THEN /\ sent' = <<>>
            /\ res' = Response("confirm", id, 404, "not_found", <<>>)
            /\ UNCHANGED appointments
       ELSE IF updateError
       THEN /\ sent' = <<>>
            /\ res' = Response("confirm", id, 500, "server_error", <<>>)
            /\ appointments' = updateAppointment(id, [confirmed |-> TRUE])
       ELSE LET updates == DoctorSetTimeUpdates(appointments[id], id, final_time, suffix)
            IN  /\ appointments' = updateAppointment(id, updates)
                /\ sent' = <<Attempt(ConfirmMail(appointments[id].email,
                                                 "Your Appointment is Confirmed",
                                                 <<>>, Href(updates, "payment_link")),
                                     1, failing),
                             Attempt(ConfirmMail(doctorEmail,
                                                 "Appointment Confirmed - Final Details",
                                                 Href(updates, "video_link"), <<>>),
                                     2, failing)>>
                /\ res' = Response("confirm", id, 200, "confirmed", <<>>)
    /\ UNCHANGED <<variant, requests>>

\* forms: POST /doctor-set-time/:id
PostDoctorSetTimeFaulty(id, final_time, suffix, selectError, updateError, failing) ==
    /\ variant = "forms"
    /\ IF ~Got(id, selectError)
       THEN /\ sent' = <<>>
            /\ res' = Response("confirm", id, 404, "not_found", <<>>)
            /\ UNCHANGED appointments
       ELSE IF updateError
       THEN /\ sent' = <<>>
            /\ res' = Response("confirm", id, 500, "server_error", <<>>)
            /\ UNCHANGED appointments
       ELSE LET updates == DoctorSetTimeUpdates(appointments[id], id, final_time, suffix)
            IN  /\ appointments' = updateAppointment(id, updates)
                /\ sent' = <<Attempt(ConfirmMail(appointments[id].email,
                                                 "Your Appointment is Confirmed",
                                                 <<>>, Href(updates, "payment_link")),
                                     1, failing),
                             Attempt(ConfirmMail(doctorEmail,
                                                 "Appointment Confirmed - Final Details",
                                                 Href(updates, "video_link"), <<>>),
                                     2, failing)>>
                /\ res' = Response("confirm", id, 200, "confirmed", <<>>)
    /\ UNCHANGED <<variant, requests>>

\* forms: POST /payment-done/:id; no try/catch around the update
PostPaymentDoneFaulty(id, selectError, updateError) ==
    /\ variant = "forms"
    /\ IF ~Got(id, selectError)
       THEN /\ sent' = <<>>
            /\ res' = Response("pay", id, 404, "not_found", <<>>)
            /\ UNCHANGED appointments
       ELSE IF updateError
       THEN /\ sent' = <<>>
            /\ UnhandledRejection("pay", id, appointments)
       ELSE /\ appointments' = updateAppointment(id, [payment_done |-> TRUE])
            /\ sent' = <<>>
            /\ res' = IF toLowerCase(appointments[id].consult_type) = "online"
                      THEN Response("pay", id, 200, "payment_confirmed_video",
                                    Href(appointments[id], "video_link"))
                      ELSE Response("pay", id, 200, "payment_confirmed", <<>>)
    /\ UNCHANGED <<variant, requests>>

\* links: GET /doctor-action/:id/:action
GetDoctorActionFaulty(id, action, suffix, selectError, updateError, failing) ==
    /\ variant = "links"
    /\ IF ~Got(id, selectError)
       THEN /\ sent' = <<>>
            /\ res' = Response(action, id, 404, "not_found", <<>>)
            /\ UNCHANGED appointments
       ELSE IF appointments[id].confirmed
       THEN /\ sent' = <<>>
            /\ res' = Response(action, id, 200, "already_confirmed", <<>>)
            /\ UNCHANGED appointments
       ELSE IF appointments[id].declined
       THEN /\ sent' = <<>>
            /\ res' = Response(action, id, 200, "already_declined", <<>>)
            /\ UNCHANGED appointments
       ELSE IF action \in {"confirm", "decline"} /\ updateError
       THEN /\ sent' = <<>>
            /\ res' = Response(action, id, 500, "server_error", <<>>)
            /\ UNCHANGED appointments
       ELSE IF action = "confirm"
       THEN LET updates == DoctorActionUpdates(appointments[id], suffix)
            IN  /\ appointments' = updateAppointment(id, updates)
                /\ sent' = <<Attempt(ConfirmMail(appointments[id].email,
                                                 "Appointment Confirmed",
                                                 Href(updates, "video_link"),
                                                 Href(updates, "payment_link")),
                                     1, failing),
                             Attempt(ConfirmMail(doctorEmail,
                                         "Appointment Confirmed - Consultation Link",
                                         Href(updates, "video_link"), <<>>),
                                     2, failing)>>
                /\ res' = Response(action, id, 200, "confirmed", <<>>)
       ELSE IF action = "decline"
       THEN /\ appointments' = updateAppointment(id,
                   [declined |-> TRUE, decline_reason |-> "Declined by doctor"])
            /\ sent' = <<Attempt(DeclineMail(appointments[id].email,
                                             "Appointment Declined",
                                             "Declined by doctor"),
                                 1, failing)>>
            /\ res' = Response(action, id, 200, "declined", <<>>)
       ELSE /\ sent' = <<>>
            /\ res' = Response(action, id, 400, "invalid_action", <<>>)
            /\ UNCHANGED appointments
    /\ UNCHANGED <<variant, requests>>

\* memory: POST /book-appointment; the send is inside the try
PostBookAppointmentMemFaulty(body, failing) ==
    /\ variant = "memory"
    /\ IF ~Truthy(body.email) \/ ~Truthy(body.consultType)
       THEN /\ sent' = <<>>
            /\ res' = Response("book", 0, 400, "validation", <<>>)
            /\ UNCHANGED appointments
       ELSE \E id \in uuidv4 :
            /\ appointments' = saveAppointment(
                   [id |-> id, name |-> body.name, email |-> body.email,
                    phone |-> body.phone, date |-> body.date, time |-> body.time,
                    consultType |-> body.consultType,
                    confirmed |-> FALSE, declined |-> FALSE])
            /\ sent' = <<Attempt(Mail(doctorEmail, "New Appointment Request"),
                                1, failing)>>
            /\ res' = IF 1 \in failing
                      THEN Response("book", id, 500, "mail_failed", <<>>)
                      ELSE Response("book", id, 200, "booked", <<>>)
    /\ UNCHANGED <<variant, requests>>

\* memory: POST /confirm-appointment/:id; the sends are outside any try
PostConfirmAppointmentFaulty(id, finalTime, suffix, failing) ==
    /\ variant = "memory"
    /\ IF ~Found(id)
       THEN /\ sent' = <<>>
            /\ res' = Response("confirm", id, 404, "not_found", <<>>)
            /\ UNCHANGED appointments
       ELSE IF appointments[id].declined
       THEN /\ sent' = <<>>
            /\ res' = Response("confirm", id, 200, "already_declined", <<>>)
            /\ UNCHANGED appointments
       ELSE LET updated == updateAppointment(id,
                    ConfirmAppointmentUpdates(appointments[id], finalTime, suffix))
                patient == ConfirmMail(appointments[id].email, "Appointment Confirmed",
                                       <<>>, Href(updated[id], "paymentLink"))
                doctor  == ConfirmMail(doctorEmail,
                             "Appointment Confirmed - Patient Details & Consultation Link",
                             Href(updated[id], "videoLink"), <<>>)
            IN  IF 1 \in failing
                THEN /\ sent' = <<Failed(patient)>>
                     /\ UnhandledRejection("confirm", id, updated)
                ELSE IF 2 \in failing
                THEN /\ sent' = <<patient, Failed(doctor)>>
                     /\ UnhandledRejection("confirm", id, updated)
                ELSE /\ sent' = <<patient, doctor>>
                     /\ appointments' = updated
                     /\ res' = Response("confirm", id, 200, "confirmed", <<>>)
    /\ UNCHANGED <<variant, requests>>

\* memory: POST /decline-appointment/:id; the send is outside any try
PostDeclineAppointmentFaulty(id, declineReason, failing) ==
    /\ variant = "memory"
    /\ IF ~Found(id)
       THEN /\ sent' = <<>>
            /\ res' = Response("decline", id, 404, "not_found", <<>>)
            /\ UNCHANGED appointments
       ELSE IF appointments[id].confirmed
       THEN /\ sent' = <<>>
            /\ res' = Response("decline", id, 200, "already_confirmed", <<>>)
            /\ UNCHANGED appointments
       ELSE LET updated == updateAppointment(id,
                    [declined |-> TRUE,
                     declineReason |-> IF Truthy(declineReason) THEN declineReason
                                       ELSE "No reason provided."])
                patient == DeclineMail(appointments[id].email, "Appointment Declined",
                                       updated[id].declineReason)
            IN  IF 1 \in failing
                THEN /\ sent' = <<Failed(patient)>>
                     /\ UnhandledRejection("decline", id, updated)
                ELSE /\ sent' = <<patient>>
                     /\ appointments' = updated
                     /\ res' = Response("decline", id, 200, "declined", <<>>)
    /\ UNCHANGED <<variant, requests>>

\* what the services do to one request: the select fails, or the update
\* fails, or both succeed and the sends in failing fail
Outcomes(failings) ==
    {<<TRUE, FALSE, {}>>, <<FALSE, TRUE, {}>>}
    \cup {<<FALSE, FALSE, failing>> : failing \in failings}

NextFault ==
    \/ \E body \in BookBodiesFault, insertError \in BOOLEAN, failing \in SUBSET {1} :
          PostBookAppointmentFaulty(body, insertError, failing)
    \/ \E id \in Ids, reason \in Reasons, o \in Outcomes(SUBSET {1}) :
          PostDoctorDeclineFaulty(id, reason, o[1], o[2], o[3])
    \/ \E id \in Ids, final_time \in FinalTimesFault, suffix \in SuffixesFault,
          o \in Outcomes(Failing) :
          PostDoctorSetTimeFaulty(id, final_time, suffix, o[1], o[2], o[3])
    \/ \E id \in Ids, o \in Outcomes({{}}) :
          PostPaymentDoneFaulty(id, o[1], o[2])
    \/ \E id \in Ids, action \in DoctorActions, suffix \in SuffixesFault,
          o \in Outcomes(Failing) :
          GetDoctorActionFaulty(id, action, suffix, o[1], o[2], o[3])
    \/ \E body \in BookBodiesMemFault, failing \in SUBSET {1} :
          PostBookAppointmentMemFaulty(body, failing)
    \/ \E id \in Ids, finalTime \in FinalTimesFault, suffix \in SuffixesFault,
          failing \in Failing :
          PostConfirmAppointmentFaulty(id, finalTime, suffix, failing)
    \/ \E id \in Ids, declineReason \in Reasons, failing \in SUBSET {1} :
          PostDeclineAppointmentFaulty(id, declineReason, failing)
    \/ \E id \in Ids : PostVerifyPayment(id)
    \/ \E id \in Ids : GetConsultation(id)

SpecFault == Init /\ [][NextFault]_vars

\* ---------------------------------------------- concurrent requests ----
\* Node runs a handler up to its next await and then serves other requests.
\* The Supabase handlers await getAppointment, then updateAppointment, then
\* sendEmail; the in-memory handlers change the Map before their first
\* await, so for the store they are one step.

\* the inputs of the requests under SpecConc
BookBodiesConc ==
    [name : {"Asha"}, email : {"a@x.com"}, number : {"98400"},
     date : {"2024-06-01"}, time : {"10:00"}, consultType : ConsultTypes]

BookBodiesMemConc ==
    [name : {"Asha"}, email : {"a@x.com"}, phone : {"98400"},
     date : {"2024-06-01"}, time : {"10:00"}, consultType : ConsultTypes]

FinalTimesConc == {"10:30 AM"}

DoctorActionsConc == {"confirm", "decline"}

\* a handler that has read its record: the update it is about to write, the
\* mails it will send and the response it will give, all computed from the
\* record as it was read
Request(id, updates, mails, response) ==
    [id |-> id, pc |-> "update", updates |-> updates, mails |-> mails,
     response |-> response]

\* the request answers straight after its read
Answer(response) ==
    /\ res' = response
    /\ sent' = <<>>
    /\ UNCHANGED <<appointments, requests>>

\* the request goes on to its update; requests is the set of the requests
\* that got past their read, each with its local variables and its place
\* in the handler ("update", "send", or "done" once answered)
Proceed(request) ==
    /\ Cardinality(requests) < MaxRequests
    /\ requests' = requests \cup {request}
    /\ UNCHANGED <<appointments, res, sent>>

\* forms: POST /doctor-decline/:id up to `await updateAppointment`
BeginDoctorDecline(id, reason) ==
    /\ variant = "forms"
    /\ IF ~Found(id)
       THEN Answer(Response("decline", id, 404, "not_found", <<>>))
       ELSE Proceed(Request(id,
                Merge([declined |-> TRUE], Column("decline_reason", reason)),
                <<DeclineMail(appointments[id].email, "Appointment Declined", reason)>>,
                Response("decline", id, 200, "declined", <<>>)))
    /\ UNCHANGED variant

\* forms: POST /doctor-set-time/:id up to `await updateAppointment`
BeginDoctorSetTime(id, final_time, suffix) ==
    /\ variant = "forms"
    /\ IF ~Found(id)
       THEN Answer(Response("confirm", id, 404, "not_found", <<>>))
       ELSE LET updates == DoctorSetTimeUpdates(appointments[id], id, final_time, suffix)
            IN  Proceed(Request(id, updates,
                    <<ConfirmMail(appointments[id].email, "Your Appointment is Confirmed",
                                  <<>>, Href(updates, "payment_link")),
                      ConfirmMail(doctorEmail, "Appointment Confirmed - Final Details",
                                  Href(updates, "video_link"), <<>>)>>,
                    Response("confirm", id, 200, "confirmed", <<>>)))
    /\ UNCHANGED variant

\* forms: POST /payment-done/:id up to `await updateAppointment`
BeginPaymentDone(id) ==
    /\ variant = "forms"
    /\ IF ~Found(id)
       THEN Answer(Response("pay", id, 404, "not_found", <<>>))
       ELSE Proceed(Request(id, [payment_done |-> TRUE], <<>>,
                IF toLowerCase(appointments[id].consult_type) = "online"
                THEN Response("pay", id, 200, "payment_confirmed_video",
                              Href(appointments[id], "video_link"))
                ELSE Response("pay", id, 200, "payment_confirmed", <<>>)))
    /\ UNCHANGED variant

\* links: GET /doctor-action/:id/:action up to `await updateAppointment`
BeginDoctorAction(id, action, suffix) ==
    /\ variant = "links"
    /\ IF ~Found(id)
       THEN Answer(Response(action, id, 404, "not_found", <<>>))
       ELSE IF appointments[id].confirmed
       THEN Answer(Response(action, id, 200, "already_confirmed", <<>>))
       ELSE IF appointments[id].declined
       THEN Answer(Response(action, id, 200, "already_declined", <<>>))
       ELSE IF action = "confirm"
       THEN LET updates == DoctorActionUpdates(appointments[id], suffix)
            IN  Proceed(Request(id, updates,
                    <<ConfirmMail(appointments[id].email, "Appointment Confirmed",
                                  Href(updates, "video_link"),
                                  Href(updates, "payment_link")),
                      ConfirmMail(doctorEmail, "Appointment Confirmed - Consultation Link",
                                  Href(updates, "video_link"), <<>>)>>,
                    Response(action, id, 200, "confirmed", <<>>)))
       ELSE IF action = "decline"
       THEN Proceed(Request(id,
                [declined |-> TRUE, decline_reason |-> "Declined by doctor"],
                <<DeclineMail(appointments[id].email, "Appointment Declined",
                              "Declined by doctor")>>,
                Response(action, id, 200, "declined", <<>>)))
       ELSE Answer(Response(action, id, 400, "invalid_action", <<>>))
    /\ UNCHANGED variant

\* `await updateAppointment(id, updates)` of a request that has read
AwaitUpdateAppointment(request) ==
    /\ request.pc = "update"
    /\ appointments' = updateAppointment(request.id, request.updates)
    /\ requests' = (requests \ {request}) \cup {[request EXCEPT !.pc = "send"]}
    /\ UNCHANGED <<variant, res, sent>>

\* the `await sendEmail(...)` calls and the res.send that follows them
AwaitSendEmail(request) ==
    /\ request.pc = "send"
    /\ sent' = request.mails
    /\ res' = request.response
    /\ requests' = (requests \ {request}) \cup {[request EXCEPT !.pc = "done"]}
    /\ UNCHANGED <<variant, appointments>>

NextConc ==
    \/ \E body \in BookBodiesConc : PostBookAppointment(body)
    \/ \E id \in Ids, reason \in Reasons :
          BeginDoctorDecline(id, reason)
    \/ \E id \in Ids, final_time \in FinalTimesConc, suffix \in Suffixes :
          BeginDoctorSetTime(id, final_time, suffix)
    \/ \E id \in Ids : BeginPaymentDone(id)
    \/ \E id \in Ids, action \in DoctorActionsConc, suffix \in Suffixes :
          BeginDoctorAction(id, action, suffix)
    \/ \E request \in requests : AwaitUpdateAppointment(request)
    \/ \E request \in requests : AwaitSendEmail(request)
    \/ \E body \in BookBodiesMemConc : PostBookAppointmentMem(body)
    \/ \E id \in Ids, finalTime \in FinalTimesConc, suffix \in Suffixes :
          PostConfirmAppointment(id, finalTime, suffix)
    \/ \E id \in Ids, declineReason \in Reasons : PostDeclineAppointment(id, declineReason)
    \/ \E id \in Ids : PostVerifyPayment(id)
    \/ \E id \in Ids : GetConsultation(id)

SpecConc == Init /\ [][NextConc]_vars

\* ------------------------------------------------ the awaited mailer ----
\* Book, Confirm and Decline `await` their sends before they answer (182 then
\* 184; 299 and 312 then 314; 857 and 893 then 900).  SpecLive cuts them at
\* that await: a request that has stored its change waits for the promise of
\* the send, which resolves, rejects or never settles.

\* the inputs of the requests under SpecLive
BookBodiesLive ==
    [name : {"Asha"}, email : {"a@x.com", ""}, number : {"98400"},
     date : {"2024-06-01"}, time : {"10:00"}, consultType : {"Online"}]

BookBodiesMemLive ==
    [name : {"Asha"}, email : {"a@x.com"}, phone : {"98400"},
     date : {"2024-06-01"}, time : {"10:00"}, consultType : {"Online"}]

SuffixesLive == {"k3j9x2ab"}

\* a handler that has stored its change and awaits its sends
Sending(id, mails, response) ==
    [Request(id, <<>>, mails, response) EXCEPT !.pc = "send"]

\* Supabase: POST /book-appointment up to `await sendEmail`
BeginBookAppointment(body) ==
    /\ variant \in Supabase
    /\ IF ~Truthy(body.email) \/ ~Truthy(body.consultType)
       THEN Answer(Response("book", 0, 400, "validation", <<>>))
       ELSE \E id \in uuidv4 :
            /\ Cardinality(requests) < MaxRequests
            /\ appointments' = saveAppointment(
                   [id |-> id, name |-> body.name, email |-> body.email,
                    phone |-> body.number, date |-> body.date, time |-> body.time,
                    consult_type |-> body.consultType,
                    confirmed |-> FALSE, declined |-> FALSE])
            /\ requests' = requests \cup
                   {Sending(id, <<Mail(doctorEmail, "New Appointment Request")>>,
                            Response("book", id, 200, "booked", <<>>))}
            /\ UNCHANGED <<res, sent>>
    /\ UNCHANGED variant

\* memory: POST /confirm-appointment/:id up to `await transporter.sendMail`
BeginConfirmAppointment(id, finalTime, suffix) ==
    /\ variant = "memory"
    /\ IF ~Found(id)
       THEN Answer(Response("confirm", id, 404, "not_found", <<>>))
       ELSE IF appointments[id].declined
       THEN Answer(Response("confirm", id, 200, "already_declined", <<>>))
       ELSE /\ Cardinality(requests) < MaxRequests
            /\ appointments' = updateAppointment(id,
                   ConfirmAppointmentUpdates(appointments[id], finalTime, suffix))
            /\ requests' = requests \cup
                   {Sending(id,
                       <<ConfirmMail(appointments[id].email, "Appointment Confirmed",
                                     <<>>, Href(appointments'[id], "paymentLink")),
                         ConfirmMail(doctorEmail,
                             "Appointment Confirmed - Patient Details & Consultation Link",
                             Href(appointments'[id], "videoLink"), <<>>)>>,
                       Response("confirm", id, 200, "confirmed", <<>>))}
            /\ UNCHANGED <<res, sent>>
    /\ UNCHANGED variant

\* the request moves to the place pc; a process that exits takes every
\* request it had not answered with it
Moved(request, pc, exit) ==
    {IF q = request THEN [q EXCEPT !.pc = pc]
     ELSE IF exit /\ q.pc # "done" THEN [q EXCEPT !.pc = "lost"]
     ELSE q : q \in requests}

\* the promise of a send rejected: sendEmail catches the error and the
\* handler goes on (87-101); transporter.sendMail at 857 is outside any try
SendRejects(request) ==
    /\ request.pc = "send"
    /\ IF variant \in Supabase
       THEN /\ sent' = <<Failed(request.mails[1])>> \o Tail(request.mails)
            /\ res' = request.response
            /\ requests' = Moved(request, "done", FALSE)
            /\ UNCHANGED appointments
       ELSE /\ sent' = <<Failed(request.mails[1])>>
            /\ UnhandledRejection(request.response.op, request.id, appointments)
            /\ requests' = Moved(request,
                                 IF res'.status = 500 THEN "done" ELSE "lost",
                                 res'.kind = "process_exit")
    /\ UNCHANGED variant

\* the promise of a send never settles: the handler stays at its await
SendHangs(request) ==
    /\ request.pc = "send"
    /\ requests' = Moved(request, "hung", FALSE)
    /\ UNCHANGED <<variant, appointments, res, sent>>

\* what the mailer does with the sends of a request that awaits them
Mailer ==
    \E request \in requests :
        AwaitSendEmail(request) \/ SendRejects(request) \/ SendHangs(request)

NextLive ==
    \/ \E body \in BookBodiesLive : BeginBookAppointment(body)
    \/ \E id \in Ids, reason \in Reasons : BeginDoctorDecline(id, reason)
    \/ \E id \in Ids, final_time \in FinalTimesConc, suffix \in SuffixesLive :
          BeginDoctorSetTime(id, final_time, suffix)
    \/ \E id \in Ids, action \in DoctorActionsConc, suffix \in SuffixesLive :
          BeginDoctorAction(id, action, suffix)
    \/ \E request \in requests : AwaitUpdateAppointment(request)
    \/ \E request \in requests : AwaitSendEmail(request)
    \/ \E request \in requests : SendRejects(request)
    \/ \E request \in requests : SendHangs(request)
    \/ \E body \in BookBodiesMemLive : PostBookAppointmentMem(body)
    \/ \E id \in Ids, finalTime \in FinalTimesConc, suffix \in SuffixesLive :
          BeginConfirmAppointment(id, finalTime, suffix)

\* Node resumes a handler when the promise it awaits has settled: the store
\* answers every update, and the mailer does one of the three things with
\* every send
SpecLive ==
    /\ Init
    /\ [][NextLive]_vars
    /\ WF_vars(\E request \in requests : AwaitUpdateAppointment(request))
    /\ WF_vars(Mailer)

\* ------------------------------------------------ migrate-to-supabase ----
\* The migration script reads appointments.json, the file of the in-memory
\* version, and upserts one row per entry into the table of the Supabase
\* versions.  Under SpecMigrate `appointments` is that table, a list of rows
\* in which a NULL column is an absent field, and `res` is what the last
\* run of the script has logged.

\* the longest appointments.json
MaxFile == 2

\* entries of appointments.json: a confirmed and paid online appointment, a
\* declined one with the same id, in the field names of an older file and
\* with no name, and a requested one with another id
FileAppointments ==
    {[id |-> 1, name |-> "Asha", email |-> "a@x.com", phone |-> "98400",
      date |-> "2024-06-01", time |-> "10:00", consultType |-> "Online",
      confirmed |-> TRUE, declined |-> FALSE, finalTime |-> "10:30 AM",
      paymentDone |-> TRUE, jitsiRoom |-> "sidhahealth-k3j9x2ab",
      videoLink |-> "https://meet.jit.si/sidhahealth-k3j9x2ab",
      paymentLink |-> "http://localhost:5000/payment/1", amount |-> 500],
     [id |-> 1, email |-> "a@x.com", number |-> "98401", date |-> "",
      consult_type |-> "offline", declined |-> TRUE,
      decline_reason |-> "fully booked", amount |-> 0],
     [id |-> 2, name |-> "Ravi", email |-> "r@x.com", phone |-> "98402",
      date |-> "2024-06-02", time |-> "11:00", consultType |-> "offline",
      confirmed |-> FALSE, declined |-> FALSE]}

\* parsed.appointments as the loop walks it
Files == UNION {[1..n -> FileAppointments] : n \in 0..MaxFile}

\* a.k, undefined when the entry has no such property
Get(a, k) == IF k \in DOMAIN a THEN a[k] ELSE Undefined

\* a.k1 || a.k2
Either(a, k1, k2) == IF Truthy(Get(a, k1)) THEN Get(a, k1) ELSE Get(a, k2)

\* column: v || null
OrNull(column, v) == IF Truthy(v) THEN [x \in {column} |-> v] ELSE <<>>

\* column: a.k, which JSON leaves out of the request when it is undefined
Plain(column, a, k) == IF k \in DOMAIN a THEN [x \in {column} |-> a[k]] ELSE <<>>

\* column: !!a.k
Bool(column, a, k) == [x \in {column} |-> k \in DOMAIN a /\ a[k]]

\* the columns the row of an entry names: a property that is undefined is
\* left out of the request, every other column is sent, NULL included
Provided(a) ==
    {k \in {"id", "name", "email"} : k \in DOMAIN a}
    \cup {"phone", "date", "time", "consult_type", "confirmed", "declined",
          "final_time", "payment_done", "jitsi_room", "video_link",
          "payment_link", "amount", "decline_reason"}

\* `const row = {...}`: the entry in the columns of the table
Row(a) ==
    LET merge(r, u) == Merge(r, u)
    IN  merge(merge(merge(merge(merge(merge(merge(merge(merge(merge(merge(
        merge(merge(merge(merge(
            Plain("id", a, "id"),
            Plain("name", a, "name")),
            Plain("email", a, "email")),
            OrNull("phone", Either(a, "phone", "number"))),
            OrNull("date", Get(a, "date"))),
            OrNull("time", Get(a, "time"))),
            OrNull("consult_type", Either(a, "consultType", "consult_type"))),
            Bool("confirmed", a, "confirmed")),
            Bool("declined", a, "declined")),
            OrNull("final_time", Get(a, "finalTime"))),
            Bool("payment_done", a, "paymentDone")),
            OrNull("jitsi_room", Get(a, "jitsiRoom"))),
            OrNull("video_link", Get(a, "videoLink"))),
            OrNull("payment_link", Get(a, "paymentLink"))),
            IF "amount" \in DOMAIN a /\ a.amount # 0
            THEN [amount |-> a.amount] ELSE <<>>),
            OrNull("decline_reason", Either(a, "declineReason", "decline_reason")))

\* the upsert as it would be as a plain insert into a table without a key
Upsert_Insert(table, row, provided) == Append(table, row)

\* supabase.from("appointments").upsert([row], { onConflict: "id" }): the
\* row with this id takes the columns the request names, the others stay;
\* a new id is a new row
Upsert(table, row, provided) ==
    IF \E k \in DOMAIN table : table[k].id = row.id
    THEN [k \in DOMAIN table |->
            IF table[k].id = row.id
            THEN Merge([c \in (DOMAIN table[k]) \ provided |-> table[k][c]], row)
            ELSE table[k]]
    ELSE Append(table, row)

\* the loop over the entries from the k-th on; the upserts of the entries in
\* failing return an error, which is logged, and the loop goes on
RECURSIVE MigrateFrom(_, _, _, _)
MigrateFrom(table, file, failing, k) ==
    IF k > Len(file)
    THEN table
    ELSE MigrateFrom(IF k \in failing
                     THEN table
                     ELSE Upsert(table, Row(file[k]), Provided(file[k])),
                     file, failing, k + 1)

Migrate(table, file, failing) == MigrateFrom(table, file, failing, 1)

\* one run of the script over the file, up to process.exit(0)
RunMigration(file, failing) ==
    /\ variant = "migration"
    /\ appointments' = Migrate(appointments, file, failing)
    /\ res' = [op |-> "migrate", id |-> 0, status |-> 0, kind |-> "done",
               link |-> <<>>, file |-> file, failing |-> failing]
    /\ UNCHANGED <<variant, sent, requests>>

InitMigrate ==
    /\ variant = "migration"
    /\ appointments = <<>>
    /\ res = Response("none", 0, 0, "none", <<>>)
    /\ sent = <<>>
    /\ requests = {}

NextMigrate ==
    \E file \in Files, failing \in SUBSET (1..MaxFile) : RunMigration(file, failing)

SpecMigrate == InitMigrate /\ [][NextMigrate]_vars


\* ------------------------------------------------------------------------
\* The specification's vocabulary over a stored record.  The Supabase versions
\* name the columns in snake case, the in-memory version in camel case.
K(snake, camel) == IF variant = "memory" THEN camel ELSE snake

kConsultType == K("consult_type", "consultType")

kFinalTime == K("final_time", "finalTime")

kDeclineReason == K("decline_reason", "declineReason")

kPaymentDone == K("payment_done", "paymentDone")

kVideoRoom == K("jitsi_room", "jitsiRoom")

kVideoLink == K("video_link", "videoLink")

kPaymentLink == K("payment_link", "paymentLink")

Has(r, k) == k \in DOMAIN r

Online(r) == toLowerCase(r[kConsultType]) = "online"

Offline(r) == toLowerCase(r[kConsultType]) = "offline"

PaymentDone(r) == Has(r, kPaymentDone) /\ r[kPaymentDone]

\* the operation the last response answers
IsConfirm(r) == r.op = "confirm"

IsDecline(r) == r.op = "decline"

IsPay(r) == r.op = "pay"

IsAccess(r) == r.op = "consultation"

\* IllegalState as the handlers surface it: a message, not a status code
IllegalState(r) == r.kind \in {"already_confirmed", "already_declined"}

Granted(r) == r.kind \in {"redirect", "offline_confirmed"}

\* ------------------------------------------------------------------------
\* C1: in every reachable state no record is confirmed and declined at the
\* same time, and the record a Book has just created has both flags false.
C1_NotConfirmedAndDeclined ==
    /\ \A i \in DOMAIN appointments :
          ~(appointments[i].confirmed /\ appointments[i].declined)
    /\ (res.op = "book" /\ res.status = 200) =>
          (~appointments[res.id].confirmed /\ ~appointments[res.id].declined)

\* C2: a Decline on a confirmed record, and a Confirm on a declined record,
\* is answered with IllegalState and leaves the record as the first call set it.
C2_SecondCallRejected ==
    [][\A i \in DOMAIN appointments :
          /\ (appointments[i].confirmed /\ ~appointments[i].declined
                /\ IsDecline(res') /\ res'.id = i)
             => (IllegalState(res') /\ appointments'[i] = appointments[i])
          /\ (appointments[i].declined /\ ~appointments[i].confirmed
                /\ IsConfirm(res') /\ res'.id = i)
             => (IllegalState(res') /\ appointments'[i] = appointments[i])]_vars

\* C3: once confirmed is true it stays true, once declined is true it stays
\* true: no step sets either flag back to false (or drops the record).
C3_FlagsNeverFlipBack ==
    [][\A i \in DOMAIN appointments :
          /\ i \in DOMAIN appointments'
          /\ appointments[i].confirmed => appointments'[i].confirmed
          /\ appointments[i].declined => appointments'[i].declined]_vars

\* a confirmed record that a later payment or decline request has acted on
C3_Witness ==
    \E i \in DOMAIN appointments :
        /\ appointments[i].confirmed
        /\ res.id = i /\ res.status = 200
        /\ (IsPay(res) \/ IsDecline(res))

\* C4: a successful Book creates a record with confirmed = false and
\* declined = false under an id no record had before, leaves the other
\* records alone, and no two records of the store share an id.
C4_BookCreatesFreshRecord ==
    /\ [](\A i, j \in DOMAIN appointments :
             /\ appointments[i].id = i
             /\ appointments[i].id = appointments[j].id => i = j)
    /\ [][(res'.op = "book" /\ res'.status = 200) =>
             /\ res'.id \notin DOMAIN appointments
             /\ DOMAIN appointments' = DOMAIN appointments \cup {res'.id}
             /\ appointments'[res'.id].confirmed = FALSE
             /\ appointments'[res'.id].declined = FALSE
             /\ \A j \in DOMAIN appointments : appointments'[j] = appointments[j]]_vars

\* a second record has just been booked beside an earlier one
C4_Witness ==
    /\ res.op = "book" /\ res.status = 200
    /\ Cardinality(DOMAIN appointments) >= 2
    /\ ~appointments[res.id].confirmed /\ ~appointments[res.id].declined

\* C5: right after a successful Confirm of an online record, videoLink and
\* paymentLink are set and non-empty and paymentDone is false.
C5_OnlineConfirmLinks ==
    (IsConfirm(res) /\ res.kind = "confirmed" /\ Online(appointments[res.id])) =>
        LET r == appointments[res.id]
        IN  /\ Has(r, kVideoLink) /\ Len(r[kVideoLink]) > 0
            /\ Has(r, kPaymentLink) /\ Len(r[kPaymentLink]) > 0
            /\ Has(r, kPaymentDone) /\ r[kPaymentDone] = FALSE

\* an online record booked as "Online" has just been confirmed
C5_Witness ==
    /\ IsConfirm(res) /\ res.kind = "confirmed"
    /\ appointments[res.id][kConsultType] = "Online"
    /\ appointments[res.id].confirmed

\* C6: right after a successful Confirm of an offline record, videoLink,
\* videoRoom and paymentLink are unset and paymentDone is true.
C6_OfflineConfirmPaid ==
    (IsConfirm(res) /\ res.kind = "confirmed" /\ Offline(appointments[res.id])) =>
        LET r == appointments[res.id]
        IN  /\ ~Has(r, kVideoLink) /\ ~Has(r, kVideoRoom) /\ ~Has(r, kPaymentLink)
            /\ PaymentDone(r)

\* C7: CompletePayment on a record that is offline or not confirmed leaves
\* the record unchanged.
C7_PaymentRejected ==
    [][\A i \in DOMAIN appointments :
          (IsPay(res') /\ res'.id = i
             /\ (~Online(appointments[i]) \/ ~appointments[i].confirmed))
          => appointments'[i] = appointments[i]]_vars

\* C8: CompletePayment on a confirmed online record answers with success, sets
\* paymentDone to true and changes nothing else, in that record or another:
\* a second call finds paymentDone true and leaves the store as it is.
C8_PaymentIdempotent ==
    [][\A i \in DOMAIN appointments :
          (IsPay(res') /\ res'.id = i
             /\ Online(appointments[i]) /\ appointments[i].confirmed)
          => /\ res'.status = 200
             /\ DOMAIN appointments' = DOMAIN appointments
             /\ \A j \in DOMAIN appointments \ {i} : appointments'[j] = appointments[j]
             /\ DOMAIN appointments'[i] = DOMAIN appointments[i] \cup {kPaymentDone}
             /\ appointments'[i][kPaymentDone] = TRUE
             /\ \A k \in DOMAIN appointments[i] \ {kPaymentDone} :
                   appointments'[i][k] = appointments[i][k]
             /\ PaymentDone(appointments[i]) => appointments' = appointments]_vars

\* a payment request has been answered for a confirmed online record
C8_Witness ==
    /\ IsPay(res) /\ res.status = 200
    /\ appointments[res.id].confirmed /\ Online(appointments[res.id])
    /\ PaymentDone(appointments[res.id])

\* C9: GetConsultationAccess never grants access for a record whose
\* paymentDone is false or unset, whatever the consult type.
C9_NoAccessUnpaid ==
    /\ (IsAccess(res) /\ Granted(res)) => PaymentDone(appointments[res.id])
    /\ variant = "memory" =>
          \A i \in DOMAIN appointments :
              ~PaymentDone(appointments[i]) =>
                  ConsultationAccess(appointments[i]).kind = "payment_first"

\* access has just been denied for a confirmed online record awaiting payment
C9_Witness ==
    /\ IsAccess(res) /\ res.kind = "payment_first"
    /\ appointments[res.id].confirmed /\ Online(appointments[res.id])
    /\ Has(appointments[res.id], kVideoLink)
    /\ ~PaymentDone(appointments[res.id])

\* C10: GetConsultationAccess answers denied when paymentDone is false,
\* granted with the record's videoLink when the record is online and paid,
\* granted with date and time and no link when it is offline and paid.
C10_AccessByTypeAndPayment ==
    (IsAccess(res) /\ res.status # 404) =>
        LET r == appointments[res.id]
        IN  /\ ~PaymentDone(r) => res.kind = "payment_first"
            /\ (PaymentDone(r) /\ Online(r)) =>
                  /\ res.kind = "redirect"
                  /\ Has(r, kVideoLink) /\ res.link = r[kVideoLink]
            /\ (PaymentDone(r) /\ ~Online(r)) =>
                  /\ res.kind = "offline_confirmed"
                  /\ res.link = <<>>

\* ------------------------------------------------------------------------
IsBook(r) == r.op = "book"

\* the default texts the decline handlers store when no reason is given
Placeholders == {"No reason provided.", "Declined by doctor"}

\* C11: for an online appointment that was booked, confirmed and then paid,
\* paymentDone is true and GetConsultationAccess redirects to the videoLink
\* the Confirm stored: the payment sets paymentDone and keeps the link, no
\* request but a Confirm of that record writes the link, and access to a
\* confirmed, paid online record is granted with the record's link.
C11_PaidOnlineAccess ==
    /\ [][\A i \in DOMAIN appointments :
             /\ (IsPay(res') /\ res'.id = i /\ appointments[i].confirmed
                   /\ Online(appointments[i]))
                => PaymentDone(appointments'[i])
             /\ (Has(appointments[i], kVideoLink)
                   /\ ~(IsConfirm(res') /\ res'.id = i))
                => /\ Has(appointments'[i], kVideoLink)
                   /\ appointments'[i][kVideoLink] = appointments[i][kVideoLink]]_vars
    /\ []((IsAccess(res) /\ res.status # 404
             /\ appointments[res.id].confirmed /\ Online(appointments[res.id])
             /\ PaymentDone(appointments[res.id]))
          => /\ res.kind = "redirect"
             /\ res.link = appointments[res.id][kVideoLink])

\* access has just been granted, with the stored link, for a paid online record
C11_Witness ==
    /\ IsAccess(res) /\ res.kind = "redirect"
    /\ appointments[res.id].confirmed /\ Online(appointments[res.id])
    /\ PaymentDone(appointments[res.id])
    /\ res.link = appointments[res.id][kVideoLink]

\* C12: in every reachable state, each of videoRoom, videoLink and paymentLink
\* is set on a record if and only if the record is confirmed and online.
C12_LinksIffConfirmedOnline ==
    \A i \in DOMAIN appointments :
        LET r == appointments[i]
        IN  /\ Has(r, kVideoRoom) <=> (r.confirmed /\ Online(r))
            /\ Has(r, kVideoLink) <=> (r.confirmed /\ Online(r))
            /\ Has(r, kPaymentLink) <=> (r.confirmed /\ Online(r))

\* a confirmed online record with its links beside a confirmed offline record
C12_Witness ==
    \E i, j \in DOMAIN appointments :
        /\ appointments[i].confirmed /\ Online(appointments[i])
        /\ Has(appointments[i], kVideoRoom) /\ Has(appointments[i], kPaymentLink)
        /\ appointments[j].confirmed /\ Offline(appointments[j])
        /\ ~Has(appointments[j], kVideoLink)

\* C13: in every reachable state declineReason is set on a record if and
\* only if declined is true, also after a Decline that carried no reason.
C13_ReasonIffDeclined ==
    \A i \in DOMAIN appointments :
        Has(appointments[i], kDeclineReason) <=> appointments[i].declined

\* C14: in every reachable state a record that is not confirmed has none of
\* finalTime, amount, videoRoom, videoLink, paymentLink.
C14_UnconfirmedHasNoConfirmFields ==
    \A i \in DOMAIN appointments :
        LET r == appointments[i]
        IN  ~r.confirmed =>
               /\ ~Has(r, kFinalTime) /\ ~Has(r, "amount")
               /\ ~Has(r, kVideoRoom) /\ ~Has(r, kVideoLink) /\ ~Has(r, kPaymentLink)

\* a record has just been booked while another one is already confirmed
C14_Witness ==
    /\ IsBook(res) /\ res.status = 200
    /\ ~appointments[res.id].confirmed
    /\ \E j \in DOMAIN appointments :
          appointments[j].confirmed /\ Has(appointments[j], kFinalTime)

\* C15: a Confirm of a record that is already confirmed is answered with
\* IllegalState, changes nothing in the record and sends no notification.
C15_ReconfirmRejected ==
    [][\A i \in DOMAIN appointments :
          (appointments[i].confirmed /\ IsConfirm(res') /\ res'.id = i)
          => /\ IllegalState(res')
             /\ appointments'[i] = appointments[i]
             /\ sent' = <<>>]_vars

\* C16: every confirmed record has amount 500, online or offline, and no
\* record ever carries another amount (none that a client sent).
C16_AmountIsFixedFee ==
    \A i \in DOMAIN appointments :
        LET r == appointments[i]
        IN  /\ r.confirmed => (Has(r, "amount") /\ r.amount = 500)
            /\ Has(r, "amount") => r.amount = 500

\* an online and an offline record, both confirmed at the fixed fee
C16_Witness ==
    \E i, j \in DOMAIN appointments :
        /\ Online(appointments[i]) /\ Offline(appointments[j])
        /\ appointments[i].confirmed /\ appointments[j].confirmed
        /\ appointments[i].amount = 500 /\ appointments[j].amount = 500

\* C17: right after a successful Decline the record has declined = true and
\* a declineReason, which is a reason a request gave or a default text.
C17_DeclineStoresReason ==
    (res.kind = "declined" /\ res.status = 200) =>
        LET r == appointments[res.id]
        IN  /\ r.declined
            /\ Has(r, kDeclineReason)
            /\ r[kDeclineReason] \in Reasons \cup Placeholders

\* C18: a Confirm, Decline, CompletePayment or GetConsultationAccess for an
\* id that matches no record is answered 404, leaves the store as it is and
\* sends no notification; 404 is answered for no id that matches a record.
C18_UnknownIdNotFound ==
    /\ [](res.status = 404 => (~Found(res.id) /\ sent = <<>>))
    /\ [][(~IsBook(res') /\ res'.id \notin DOMAIN appointments)
             => /\ res'.status = 404
                /\ sent' = <<>>
                /\ appointments' = appointments]_vars

\* a request for an unknown id was refused while the store holds a record
C18_Witness ==
    /\ res.status = 404 /\ res.kind = "not_found"
    /\ ~Found(res.id)
    /\ appointments # <<>>

\* C19: a Book either is refused with a validation error, stores nothing and
\* sends nothing, or stores one record; no stored record has an empty or
\* missing email or consult type.
C19_InvalidBookRejected ==
    /\ [](\A i \in DOMAIN appointments :
             /\ appointments[i].email \notin {"", Undefined}
             /\ appointments[i][kConsultType] \notin {"", Undefined})
    /\ []((IsBook(res) /\ res.status # 200)
             => (res.status = 400 /\ res.kind = "validation" /\ sent = <<>>))
    /\ [][(IsBook(res') /\ res'.status # 200) => appointments' = appointments]_vars

\* a booking was refused after an earlier one had been stored
C19_Witness ==
    /\ IsBook(res) /\ res.status = 400 /\ sent = <<>>
    /\ appointments # <<>>

\* C20: every stored record's consult type is online or offline up to case.
C20_ConsultTypeRecognised ==
    \A i \in DOMAIN appointments :
        toLowerCase(appointments[i][kConsultType]) \in {"online", "offline"}

\* a send of the last request failed
SendFailed == \E k \in DOMAIN sent : "error" \in DOMAIN sent[k]

\* C21: in Book the operator is notified only after the record is stored:
\* whenever a Book has attempted a notification its record is in the store,
\* and a Book whose insert fails answers an error, stores nothing and
\* attempts no notification.
C21_BookNotifiesAfterPersist ==
    /\ []((IsBook(res) /\ sent # <<>>) => Found(res.id))
    /\ []((IsBook(res) /\ res.kind = "server_error")
             => (res.status = 500 /\ sent = <<>> /\ ~Found(res.id)))
    /\ [][(IsBook(res') /\ res'.kind = "server_error")
             => appointments' = appointments]_vars

\* an insert failed while the store already holds an earlier booking
C21_Witness ==
    /\ IsBook(res) /\ res.kind = "server_error"
    /\ sent = <<>>
    /\ appointments # <<>>

\* C22: when the operator notification of a Book fails, the record stays in
\* the store and the caller receives the success result with the id.
C22_BookMailFailureNotFatal ==
    (IsBook(res) /\ SendFailed) =>
        (Found(res.id) /\ res.status = 200 /\ res.kind = "booked")

\* C23: when a notification of a Confirm or a Decline fails, the record
\* keeps the new state and the caller receives the success result.
C23_MailFailureNotFatal ==
    ((IsConfirm(res) \/ IsDecline(res)) /\ SendFailed) =>
        /\ res.status = 200
        /\ Found(res.id)
        /\ IsConfirm(res) => (res.kind = "confirmed" /\ appointments[res.id].confirmed)
        /\ IsDecline(res) => (res.kind = "declined" /\ appointments[res.id].declined)

\* a request that has written its update to the store
Applied(request) == request.pc \in {"send", "done"}

\* C24: every successful Confirm attempts exactly two notifications, the
\* first to the patient of the record and the second to the operator, and
\* the record is confirmed from the moment the Confirm turns to its sends.
C24_ConfirmNotifiesBoth ==
    /\ (IsConfirm(res) /\ res.kind = "confirmed") =>
           /\ Len(sent) = 2
           /\ sent[1].to = appointments[res.id].email
           /\ sent[2].to = doctorEmail
           /\ appointments[res.id].confirmed
    /\ \A r \in requests :
           (Applied(r) /\ r.response.kind = "confirmed")
           => (Len(r.mails) = 2 /\ appointments[r.id].confirmed)

\* a Confirm has answered and its two mails went to two different addresses
C24_Witness ==
    /\ IsConfirm(res) /\ res.kind = "confirmed"
    /\ variant \in Supabase
    /\ \E r \in requests : r.pc = "done" /\ r.response = res /\ r.mails = sent
    /\ Len(sent) = 2
    /\ sent[1].to # sent[2].to
    /\ sent[2].to = doctorEmail

\* C25: a successful Decline attempts exactly one notification, to the
\* patient of the record and not to the operator, and the notification
\* carries the reason the Decline stored on the record.
C25_DeclineNotifiesPatientOnly ==
    (IsDecline(res) /\ res.kind = "declined") =>
        /\ Len(sent) = 1
        /\ sent[1].to = appointments[res.id].email
        /\ sent[1].to # doctorEmail
        /\ sent[1].reason # Undefined
              => /\ Has(appointments[res.id], kDeclineReason)
                 /\ sent[1].reason = appointments[res.id][kDeclineReason]

\* a Decline has answered and its one mail carries a reason
C25_Witness ==
    /\ IsDecline(res) /\ res.kind = "declined"
    /\ Len(sent) = 1
    /\ sent[1].reason \in Reasons \cup Placeholders

\* C26: a CompletePayment sends no notification, whatever its outcome.
C26_PaymentSendsNothing ==
    IsPay(res) => sent = <<>>

\* a payment of an online and confirmed record was accepted without a mail
C26_Witness ==
    /\ IsPay(res) /\ res.status = 200 /\ sent = <<>>
    /\ res.link # <<>>
    /\ PaymentDone(appointments[res.id])

\* C27: a record booked with the consult type "Online" (capital O) is online
\* to every operation: its Confirm writes the room, the video link and the
\* payment link and leaves it unpaid, its CompletePayment answers with the
\* video link, and its GetConsultationAccess, once paid, redirects to it.
C27_ConsultTypeCaseInsensitive ==
    /\ [](\A i \in DOMAIN appointments :
             (appointments[i][kConsultType] = "Online" /\ appointments[i].confirmed)
             => /\ Has(appointments[i], kVideoRoom)
                /\ Has(appointments[i], kVideoLink)
                /\ Has(appointments[i], kPaymentLink))
    /\ []((res.status # 404 /\ Found(res.id) /\ res.kind # "booked"
             /\ appointments[res.id][kConsultType] = "Online"
             /\ appointments[res.id].confirmed)
          => /\ (IsConfirm(res) /\ res.kind = "confirmed")
                   => ~PaymentDone(appointments[res.id])
             /\ IsPay(res)
                   => /\ res.kind \in {"payment_confirmed_video", "payment_verified_video"}
                      /\ res.link = appointments[res.id][kVideoLink]
             /\ (IsAccess(res) /\ PaymentDone(appointments[res.id]))
                   => (res.kind = "redirect"
                       /\ res.link = appointments[res.id][kVideoLink]))

\* a record typed "Online" was confirmed and its payment answered with the link
C27_Witness ==
    /\ IsPay(res) /\ res.status = 200
    /\ appointments[res.id][kConsultType] = "Online"
    /\ appointments[res.id].confirmed
    /\ res.link = appointments[res.id][kVideoLink]

\* C28: whatever the interleaving of a Confirm and a Decline of one id, no
\* record ends confirmed and declined, and the store never takes the write
\* of a Confirm and the write of a Decline for the same id.
C28_ConfirmDeclineExclusive ==
    /\ \A i \in DOMAIN appointments :
          ~(appointments[i].confirmed /\ appointments[i].declined)
    /\ \A r1, r2 \in requests :
          (Applied(r1) /\ Applied(r2) /\ r1.id = r2.id)
          => ~(r1.response.kind = "confirmed" /\ r2.response.kind = "declined")

\* C29: the video link of a record is written once, and the link a Confirm
\* mails to the operator is the link stored on the record it answers for.
C29_VideoLinkWrittenOnce ==
    /\ [][\A i \in DOMAIN appointments :
             Has(appointments[i], kVideoLink)
             => appointments'[i][kVideoLink] = appointments[i][kVideoLink]]_vars
    /\ []((IsConfirm(res) /\ res.kind = "confirmed" /\ Online(appointments[res.id]))
             => sent[2].video = appointments[res.id][kVideoLink])

\* C30: a step changes no record but the one whose id the acting request
\* carries, and removes no record, under every interleaving.
C30_OtherRecordsUntouched ==
    [][\A i \in DOMAIN appointments :
          /\ i \in DOMAIN appointments'
          /\ appointments'[i] # appointments[i]
             => \/ \E r \in requests : r.id = i /\ r \notin requests'
                \/ requests' = requests /\ res'.id = i]_vars

\* two requests for two different records have both written, and the two
\* records differ in what was written
C30_Witness ==
    \E r1, r2 \in requests :
        /\ r1.id # r2.id /\ Applied(r1) /\ Applied(r2)
        /\ appointments[r1.id].confirmed /\ ~appointments[r2.id].confirmed
        /\ appointments[r2.id].declined /\ ~appointments[r1.id].declined

\* C34: once a record is declined, no Confirm, Decline or CompletePayment
\* for its id changes any of its fields.
C34_DeclinedIsTerminal ==
    [][\A i \in DOMAIN appointments :
          (appointments[i].declined /\ res'.id = i
             /\ (IsConfirm(res') \/ IsDecline(res') \/ IsPay(res')))
          => appointments'[i] = appointments[i]]_vars

\* C35: a GetConsultationAccess leaves the whole store as it is, whether it
\* answers not found, payment first, or grants access.
C35_AccessChangesNothing ==
    [][IsAccess(res') => appointments' = appointments]_vars

\* the page has just been served for a paid record of a full store
C35_Witness ==
    /\ IsAccess(res) /\ Granted(res)
    /\ PaymentDone(appointments[res.id])
    /\ Cardinality(DOMAIN appointments) = MaxAppointments

\* C38: a record whose paymentDone is true keeps it true in every step.
C38_PaymentDoneStaysTrue ==
    [][\A i \in DOMAIN appointments :
          PaymentDone(appointments[i]) => PaymentDone(appointments'[i])]_vars

\* C39: GetConsultationAccess grants access only for a record that is
\* confirmed and not declined.
C39_AccessOnlyIfConfirmed ==
    (IsAccess(res) /\ Granted(res)) =>
        (appointments[res.id].confirmed /\ ~appointments[res.id].declined)

\* C36: the video room name allocated by Confirm is unique: no two
\* appointments of the store ever carry the same video room
C36_VideoRoomUnique ==
    \A i, j \in DOMAIN appointments :
        (i # j /\ Has(appointments[i], kVideoRoom)
               /\ Has(appointments[j], kVideoRoom))
        => appointments[i][kVideoRoom] # appointments[j][kVideoRoom]

\* the fields a Confirm writes are all on the record r
ConfirmApplied(r) ==
    /\ r.confirmed
    /\ Has(r, "final_time") /\ Has(r, "amount") /\ Has(r, "payment_done")
    /\ Online(r) => /\ Has(r, "jitsi_room") /\ Has(r, "video_link")
                    /\ Has(r, "payment_link")

C33_ReadFailureNotNotFound ==
    ((IsConfirm(res) \/ IsDecline(res) \/ IsPay(res)) /\ res.status = 404)
        => ~Found(res.id)

\* the answer r is to a GET of a decision link of the booking notification:
\* a page of the two-step versions, or any request of the one-click version,
\* whose only route for the doctor is GET /doctor-action/:id/:action
IsDecisionGet(r) ==
    \/ r.op \in {<<"GET", "confirm">>, <<"GET", "decline">>}
    \/ variant = "links" /\ r.op \in PageActions

\* C37: a GET of the doctor's decision link only reads the record: it
\* changes no field of any record and sends no notification
C37_DecisionGetOnlyReads ==
    [][IsDecisionGet(res') => (appointments' = appointments /\ sent' = <<>>)]_vars

\* a request for the record i has stored its change and has not answered
Unanswered(i) ==
    \E q \in requests : q.id = i /\ q.pc \in {"send", "hung", "lost"}

\* C31: the response of Book, Confirm or Decline is not held back by the
\* notification: once a request has stored its change its caller is
\* eventually answered, whatever becomes of the send
C31_ResponseNotHeldBack ==
    \A i \in Ids : Unanswered(i) ~> ~Unanswered(i)

\* C40: the migration script is idempotent on the store: after a run, a
\* second run over the same file in which the same upserts succeed leaves
\* the rows as they are, every entry that was upserted has exactly one row
\* with its id, and no two rows of the table have the same id
C40_MigrationIdempotent ==
    res.op = "migrate" =>
        /\ Migrate(appointments, res.file, res.failing) = appointments
        /\ \A k \in (DOMAIN res.file) \ res.failing :
              Cardinality({j \in DOMAIN appointments :
                              appointments[j].id = res.file[k].id}) = 1
        /\ \A i, j \in DOMAIN appointments :
              i # j => appointments[i].id # appointments[j].id

\* a run has upserted two different entries with one id, without an error,
\* into a table that held a row with another id from an earlier run
C40_Witness ==
    /\ res.op = "migrate" /\ res.failing = {}
    /\ Len(res.file) = MaxFile
    /\ \E k, l \in DOMAIN res.file :
          k # l /\ res.file[k].id = res.file[l].id /\ res.file[k] # res.file[l]
    /\ \E j \in DOMAIN appointments :
          \A k \in DOMAIN res.file : appointments[j].id # res.file[k].id

====
